---- MODULE Spec2Model ----
(***************************************************************************)
(* Real Estate Listing API (main.py, schemas.py) as a state machine.       *)
(*                                                                         *)
(* State: the two collections of the document store ("property" and        *)
(* "inquiry"), the store's identifier counter, the process-wide database   *)
(* handle, the creation requests that are between their insert and their   *)
(* re-read, and the last response sent.                                    *)
(*                                                                         *)
(* Values are tagged records [t |-> type, v |-> value] so that a Python    *)
(* object and its textual rendering are different values:                  *)
(*   ObjectId k            [t |-> "ObjectId", v |-> k]                     *)
(*   its 24-hex-digit text [t |-> "hex24",    v |-> k]                     *)
(*   datetime              [t |-> "datetime", v |-> instant]               *)
(*   its text              [t |-> "datestr",  v |-> <<instant, spelling>>] *)
(* Floats are integers counting thousandths (3.5 is FltV(3500)).            *)
(***************************************************************************)
EXTENDS Integers, Sequences, FiniteSets, TLC

\* ---------------------------------------------------------------- bounds
\* documents the store accepts in the main specification
MaxDocs == 2
\* creation requests that may be between insert and re-read at once
MaxInFlight == 2
\* listings the store accepts in the listing specification (SpecList)
MaxListed == 22

\* ---------------------------------------------------------------- values
None == [t |-> "None", v |-> 0]
StrV(s) == [t |-> "str", v |-> s]
IntV(n) == [t |-> "int", v |-> n]
FltV(n) == [t |-> "float", v |-> n]
ListV(s) == [t |-> "list", v |-> s]
DateStr(i, spelling) == [t |-> "datestr", v |-> <<i, spelling>>]
DateTime(i) == [t |-> "datetime", v |-> i]
HexStr(k) == [t |-> "hex24", v |-> k]

\* Python truthiness of a value: None, "" and [] are falsy; an ObjectId, a
\* non-empty string are truthy.
Truthy(x) ==
    CASE x.t = "None" -> FALSE
      [] x.t = "str" -> x.v # ""
      [] x.t = "list" -> Len(x.v) > 0
      [] x.t = "int" -> x.v # 0
      [] x.t = "float" -> x.v # 0
      [] OTHER -> TRUE

\* bson.ObjectId(text): accepts exactly the 24-hex-digit texts, raises
\* InvalidId on every other string.
ObjectIdValid(s) == s.t = "hex24"
ObjectId(s) == [t |-> "ObjectId", v |-> s.v]
\* str(ObjectId): the 24-hex-digit text
StrOfObjectId(o) == [t |-> "hex24", v |-> o.v]

\* pydantic's reading of a datetime field: every accepted spelling of an
\* instant becomes the datetime of that instant
ParseDatetime(x) == IF x.t = "datestr" THEN DateTime(x.v[1]) ELSE x
\* datetime.isoformat(): the one spelling "iso" of the instant
isoformat(x) == DateStr(x.v, "iso")

\* ------------------------------------------------------- schemas.Property
PropertyRequired ==
    {"title", "address", "city", "state", "zipcode", "price", "beds",
     "baths", "sqft"}
PropertyListFields == {"photos", "features", "schools", "open_house"}
PropertyDateFields == {"created_at", "updated_at"}
PropertyFields ==
    PropertyRequired \cup PropertyListFields \cup PropertyDateFields \cup
    {"status", "lot_size", "year_built", "property_type", "hoa_fee",
     "price_per_sqft", "days_on_market", "video_url", "virtual_tour_url",
     "description", "latitude", "longitude", "agent_name", "agent_phone",
     "agent_email"}
\* the fields declared with ge=0
PropertyGe0 == {"price", "beds", "baths", "sqft"}

PropertyDefault(f) ==
    CASE f = "status" -> StrV("For Sale")
      [] f \in PropertyListFields -> ListV(<<>>)
      [] OTHER -> None

\* the validation without the ge=0 constraints
PropertyValid_unranged(body) == PropertyRequired \subseteq DOMAIN body

\* validation of a request body (a map of the fields that were sent)
PropertyValid(body) ==
    /\ PropertyRequired \subseteq DOMAIN body
    /\ \A f \in PropertyGe0 : body[f].v >= 0

\* the validated model with status declared Optional[str] = None
Property_status_none(body) ==
    [f \in PropertyFields |->
        IF f \in DOMAIN body
        THEN (IF f \in PropertyDateFields THEN ParseDatetime(body[f])
              ELSE body[f])
        ELSE IF f = "status" THEN None ELSE PropertyDefault(f)]

\* the validated model: defaults filled in, datetimes parsed
Property(body) ==
    [f \in PropertyFields |->
        IF f \in DOMAIN body
        THEN (IF f \in PropertyDateFields THEN ParseDatetime(body[f])
              ELSE body[f])
        ELSE PropertyDefault(f)]

\* ------------------------------------------------------ main.InquiryIn
InquiryRequired == {"name", "email"}
InquiryFields ==
    {"property_id", "name", "email", "phone", "message", "source"}
InquiryDefault(f) == IF f = "source" THEN StrV("website") ELSE None
InquiryValid(body) == InquiryRequired \subseteq DOMAIN body
InquiryIn(body) ==
    [f \in InquiryFields |->
        IF f \in DOMAIN body THEN body[f] ELSE InquiryDefault(f)]

\* ------------------------------------------------------------ the state
VARIABLES
    db,            \* the database handle: "None" or "Database"
    database_url,  \* whether DATABASE_URL is set in the environment
    storeUp,       \* whether the store answers (else every access raises)
    property,      \* collection "property", in the store's natural order
    inquiry,       \* collection "inquiry"
    nextOid,       \* the next identifier the store assigns
    inflight,      \* per request slot: a creation between insert and re-read
    resp,          \* the last response sent
    created        \* the records returned by property creations, in order

vars ==
    <<db, database_url, storeUp, property, inquiry, nextOid, inflight,
      resp, created>>

Slots == 1..MaxInFlight
Idle == [pc |-> "idle"]

\* ------------------------------------------------- the store (database)
\* every operation of the data-access layer needs the handle and the store
DbAvailable == db # "None" /\ storeUp

\* the document insert_one stores: the field map with the identifier the
\* store assigns
NewDocument(fields, oid) ==
    [k \in DOMAIN fields \cup {"_id"} |->
        IF k = "_id" THEN [t |-> "ObjectId", v |-> oid] ELSE fields[k]]

\* the plain field map of a validated model
model_dump(m) == m

\* create_document(collection, data): the collection after the insert
create_document(coll, data, oid) ==
    Append(coll, NewDocument(model_dump(data), oid))

\* collection.find_one({"_id": oid}): the first match, or None
find_one(coll, oid) ==
    LET hits == {i \in 1..Len(coll) : coll[i]["_id"] = oid}
    IN IF hits = {} THEN None
       ELSE coll[CHOOSE i \in hits : \A j \in hits : i <= j]

\* get_documents(collection, {}, limit): at most limit documents in the
\* store's natural order
get_documents(coll, limit) ==
    LET n == IF limit < 0 THEN 0
             ELSE IF limit < Len(coll) THEN limit ELSE Len(coll)
    IN SubSeq(coll, 1, n)

\* db.list_collection_names(): the collections that hold a document
list_collection_names ==
    (IF Len(property) > 0 THEN <<"property">> ELSE <<>>) \o
    (IF Len(inquiry) > 0 THEN <<"inquiry">> ELSE <<>>)

\* ------------------------------------------------------ main.to_public_id
\* "not doc": None and the empty dict are falsy
DocFalsy(doc) == doc = None \/ DOMAIN doc = {}

\* to_public_id without the renaming of "_id" (the test d.get("id") in
\* place of d.get("_id")): the raw document goes out
to_public_id_no_rename(doc) ==
    IF DocFalsy(doc) THEN doc
    ELSE [k \in DOMAIN doc |->
            IF doc[k].t \in {"datetime", "date"} THEN isoformat(doc[k])
            ELSE doc[k]]

\* to_public_id reading d["_id"] in place of d.pop("_id"): "id" is added
\* and the raw key stays
to_public_id_no_pop(doc) ==
    IF DocFalsy(doc) THEN doc
    ELSE [k \in DOMAIN doc \cup {"id"} |->
            IF k = "id" THEN StrOfObjectId(doc["_id"])
            ELSE IF doc[k].t \in {"datetime", "date"} THEN isoformat(doc[k])
            ELSE doc[k]]

to_public_id(doc) ==
    IF DocFalsy(doc) THEN doc
    ELSE
      LET hasId == "_id" \in DOMAIN doc /\ Truthy(doc["_id"])
          keys == IF hasId THEN (DOMAIN doc \ {"_id"}) \cup {"id"}
                  ELSE DOMAIN doc
          d == [k \in keys |->
                  IF hasId /\ k = "id" THEN StrOfObjectId(doc["_id"])
                  ELSE doc[k]]
      IN [k \in keys |->
            IF d[k].t \in {"datetime", "date"} THEN isoformat(d[k])
            ELSE d[k]]

\* --------------------------------------------------------------- inputs
\* request bodies for POST /api/properties
BodyA ==
    [title |-> StrV("Bungalow"), address |-> StrV("1 Elm St"),
     city |-> StrV("Reno"), state |-> StrV("NV"), zipcode |-> StrV("89501"),
     price |-> IntV(0), beds |-> FltV(2000), baths |-> FltV(1500),
     sqft |-> IntV(900),
     photos |-> ListV(<<StrV("https://example.com/a.jpg")>>),
     created_at |-> DateStr(1, "iso"), updated_at |-> DateStr(2, "alt")]
Without(body, f) == [k \in DOMAIN body \ {f} |-> body[k]]
With(body, f, x) ==
    [k \in DOMAIN body \cup {f} |-> IF k = f THEN x ELSE body[k]]
ValidBodies == {BodyA}
MissingFieldBodies == {Without(BodyA, f) : f \in PropertyRequired}
NegativeBodies ==
    {With(BodyA, "price", IntV(-1)), With(BodyA, "sqft", IntV(-5))}
PropertyBodies == ValidBodies \cup MissingFieldBodies \cup NegativeBodies

\* the arguments of Property(...) in seed_sample_property
SeedBody ==
    [title |-> StrV("Modern Craftsman with Valley Views"),
     address |-> StrV("1234 Maple Ridge Dr"),
     city |-> StrV("San Jose"), state |-> StrV("CA"),
     zipcode |-> StrV("95120"), price |-> IntV(1495000),
     status |-> StrV("For Sale"), beds |-> FltV(4000), baths |-> FltV(3500),
     sqft |-> IntV(2650), lot_size |-> FltV(250), year_built |-> IntV(2016),
     property_type |-> StrV("Single Family"), hoa_fee |-> FltV(85000),
     price_per_sqft |-> FltV(564150), days_on_market |-> IntV(3),
     photos |-> ListV(<<
        StrV("https://images.unsplash.com/photo-1600585154526-990dced4db0d"),
        StrV("https://images.unsplash.com/photo-1560185127-6ed189bf02f4"),
        StrV("https://images.unsplash.com/photo-1560448075-bb4caa6c0f11"),
        StrV("https://images.unsplash.com/photo-1505691723518-36a5ac3b2d95")>>),
     description |-> StrV("This sun-filled craftsman blends modern amenities with timeless charm."),
     features |-> ListV(<<
        StrV("Chef's kitchen with 36in range"), StrV("Walk-in pantry"),
        StrV("Vaulted great room"), StrV("Upstairs laundry"),
        StrV("EV-ready garage"), StrV("Owned solar"),
        StrV("Dual-zone HVAC"), StrV("Smart irrigation")>>),
     latitude |-> FltV(37227), longitude |-> FltV(-121890),
     schools |-> ListV(<<
        StrV("Williams Elementary (9/10)"), StrV("Bret Harte Middle (8/10)"),
        StrV("Leland High (10/10)")>>),
     open_house |-> ListV(<<StrV("Sat 1-4 PM"), StrV("Sun 12-3 PM")>>),
     agent_name |-> StrV("Alex Morgan"),
     agent_phone |-> StrV("(408) 555-0133"),
     agent_email |-> StrV("alex@example.com")]

\* request bodies for POST /api/inquiries
InquiryBase == [name |-> StrV("Kim"), email |-> StrV("kim@example.com")]
InquiryBodies ==
    {InquiryBase,
     With(InquiryBase, "property_id", StrV("")),
     With(InquiryBase, "property_id", StrV("not-an-id")),
     With(InquiryBase, "property_id", StrV("0123456789abcdef")),
     With(InquiryBase, "property_id", HexStr(1)),
     Without(InquiryBase, "name")}

\* path parameters for GET /api/properties/{property_id}: a malformed one,
\* every identifier assigned so far and the next one, not assigned yet
PathIds == {StrV("not-an-id")} \cup {HexStr(k) : k \in 1..nextOid}

\* the limit query parameter: None when the request gives none
DefaultLimit == 20
LimitQueries == {None} \cup {IntV(n) : n \in {-1, 0, 1, 2}}
ListLimitQueries ==
    {None} \cup
    {IntV(n) : n \in {-1, 1, DefaultLimit - 1, DefaultLimit + 1}}

\* failure descriptions str(e) of several lengths
ErrorSliceLen == 60
FailureText(n) == [i \in 1..n |-> i]
FailureTexts ==
    {FailureText(n) : n \in {7, ErrorSliceLen, ErrorSliceLen + 1}}
\* Python's s[:n]
SliceTo(s, n) == SubSeq(s, 1, IF Len(s) < n THEN Len(s) ELSE n)

\* ------------------------------------------------------------------ Init
Init ==
    /\ db \in {"None", "Database"}
    /\ database_url \in BOOLEAN
    /\ db = "Database" => database_url
    /\ storeUp = TRUE
    /\ property = <<>>
    /\ inquiry = <<>>
    /\ nextOid = 1
    /\ inflight = [r \in Slots |-> Idle]
    /\ resp = [op |-> "none"]
    /\ created = <<>>

\* the store becomes unreachable, or reachable again
store_outage ==
    /\ db # "None" /\ storeUp
    /\ storeUp' = FALSE
    /\ UNCHANGED <<db, database_url, property, inquiry, nextOid, inflight,
                   resp, created>>
store_recovery ==
    /\ db # "None" /\ ~storeUp
    /\ storeUp' = TRUE
    /\ UNCHANGED <<db, database_url, property, inquiry, nextOid, inflight,
                   resp, created>>

\* ------------------------------------------------------------ GET /
read_root ==
    /\ resp' = [op |-> "read_root", status |-> 200,
                body |-> [message |-> "Real Estate API is running"]]
    /\ UNCHANGED <<db, database_url, storeUp, property, inquiry, nextOid,
                   inflight, created>>

\* ------------------------------------------------------------ GET /test
\* fault: which access raises ("none", db.name: "name", the collection
\* listing: "list"); e: the failure description
\* the diagnostic with str(e) in place of str(e)[:60]
TestResponse_unsliced(fault, e) ==
    LET r0 == [backend |-> "Running",
               database |-> [label |-> "Not Available", detail |-> <<>>],
               database_url |-> "Not Set",
               database_name |-> "Not Set",
               connection_status |-> "Not Connected",
               collections |-> <<>>]
        r2 == [r0 EXCEPT !.database_url =
                             IF database_url THEN "Set" ELSE "Not Set",
                         !.database_name = "db.name",
                         !.connection_status = "Connected"]
    IN IF db = "None" THEN r0
       ELSE IF fault \in {"name", "list"}
       THEN [r2 EXCEPT !.database =
                [label |-> "Connected but Error", detail |-> e]]
       ELSE [r2 EXCEPT !.collections = list_collection_names,
                       !.database.label = "Connected & Working"]

TestResponse(fault, e) ==
    LET r0 == [backend |-> "Running",
               database |-> [label |-> "Not Available", detail |-> <<>>],
               database_url |-> "Not Set",
               database_name |-> "Not Set",
               connection_status |-> "Not Connected",
               collections |-> <<>>]
        r1 == [r0 EXCEPT !.database.label = "Available",
                         !.database_url =
                             IF database_url THEN "Set" ELSE "Not Set"]
        r2 == [r1 EXCEPT !.database_name = "db.name",
                         !.connection_status = "Connected"]
    IN IF db = "None" THEN r0
       ELSE IF fault = "name"
       THEN [r1 EXCEPT !.database =
                [label |-> "Error", detail |-> SliceTo(e, ErrorSliceLen)]]
       ELSE IF fault = "list"
       THEN [r2 EXCEPT !.database =
                [label |-> "Connected but Error",
                 detail |-> SliceTo(e, ErrorSliceLen)]]
       ELSE [r2 EXCEPT !.collections = list_collection_names,
                       !.database.label = "Connected & Working"]

test_database ==
    \E fault \in (IF DbAvailable \/ db = "None" THEN {"none"}
                  ELSE {"name", "list"}),
       e \in FailureTexts :
        /\ resp' = [op |-> "test_database", status |-> 200,
                    fault |-> fault,
                    error |-> IF fault = "none" THEN <<>> ELSE e,
                    body |-> TestResponse(fault, e)]
        /\ UNCHANGED <<db, database_url, storeUp, property, inquiry,
                       nextOid, inflight, created>>

\* ------------------------------------------------- GET /api/properties
\* an exception that no handler catches: the generic server error
ServerError(op, request) ==
    [op |-> op, status |-> 500, request |-> request]

\* the listing with the limit not passed on to get_documents
list_properties_response_unlimited(q) ==
    IF ~DbAvailable THEN ServerError("list_properties", q)
    ELSE [op |-> "list_properties", status |-> 200, request |-> q,
          body |-> [i \in 1..Len(property) |-> to_public_id(property[i])]]

list_properties_response(q) ==
    LET limit == IF q.t = "None" THEN DefaultLimit ELSE q.v
        docs == get_documents(property, limit)
    IN IF ~DbAvailable THEN ServerError("list_properties", q)
       ELSE [op |-> "list_properties", status |-> 200, request |-> q,
             body |-> [i \in 1..Len(docs) |-> to_public_id(docs[i])]]

list_properties(queries) ==
    \E q \in queries :
        /\ resp' = list_properties_response(q)
        /\ UNCHANGED <<db, database_url, storeUp, property, inquiry,
                       nextOid, inflight, created>>

\* ------------------------------------ GET /api/properties/{property_id}
\* the fetch without its try/except: a malformed identifier or a failing
\* store is an uncaught exception
get_property_response_uncaught(property_id) ==
    IF ~(DbAvailable /\ ObjectIdValid(property_id))
    THEN ServerError("get_property", property_id)
    ELSE LET doc == find_one(property, ObjectId(property_id))
         IN IF DocFalsy(doc)
            THEN [op |-> "get_property", status |-> 404,
                  request |-> property_id]
            ELSE [op |-> "get_property", status |-> 200,
                  request |-> property_id, body |-> to_public_id(doc)]

get_property_response(property_id) ==
    LET doc == \* try: find_one(ObjectId(property_id)) except: None
            IF DbAvailable /\ ObjectIdValid(property_id)
            THEN find_one(property, ObjectId(property_id))
            ELSE None
    IN IF DocFalsy(doc)
       THEN [op |-> "get_property", status |-> 404,
             request |-> property_id]
       ELSE [op |-> "get_property", status |-> 200,
             request |-> property_id, body |-> to_public_id(doc)]

get_property ==
    \E property_id \in PathIds :
        /\ resp' = get_property_response(property_id)
        /\ UNCHANGED <<db, database_url, storeUp, property, inquiry,
                       nextOid, inflight, created>>

\* ------------------------------------------------ POST /api/properties
\* the body fails validation: 422 before the handler runs
create_property_rejected ==
    \E body \in PropertyBodies :
        /\ ~PropertyValid(body)
        /\ resp' = [op |-> "create_property", status |-> 422,
                    request |-> body]
        /\ UNCHANGED <<db, database_url, storeUp, property, inquiry,
                       nextOid, inflight, created>>

\* new_id = create_document("property", payload) of a request that takes
\* the lowest free slot r: the insert, after which the request waits for
\* its re-read
insert_property(r, op, body, cap) ==
    /\ inflight[r].pc = "idle"
    /\ \A q \in Slots : q < r => inflight[q].pc # "idle"
    /\ IF ~DbAvailable
       THEN /\ resp' = ServerError(op, body)
            /\ UNCHANGED <<property, nextOid, inflight>>
       ELSE /\ nextOid <= cap
            /\ property' = create_document(property, Property(body), nextOid)
            /\ nextOid' = nextOid + 1
            /\ inflight' =
                 [inflight EXCEPT ![r] =
                    [pc |-> "inserted", op |-> op, body |-> body,
                     new_id |-> StrOfObjectId([t |-> "ObjectId",
                                               v |-> nextOid])]]
            /\ UNCHANGED resp
    /\ UNCHANGED <<db, database_url, storeUp, inquiry, created>>

create_property(r, cap) ==
    \E body \in PropertyBodies :
        /\ PropertyValid(body)
        /\ insert_property(r, "create_property", body, cap)

\* a seeder that empties the collection before it inserts the sample
seed_sample_property_reset(r, cap) ==
    /\ inflight[r].pc = "idle"
    /\ \A q \in Slots : q < r => inflight[q].pc # "idle"
    /\ DbAvailable
    /\ nextOid <= cap
    /\ property' = create_document(<<>>, Property(SeedBody), nextOid)
    /\ nextOid' = nextOid + 1
    /\ inflight' =
         [inflight EXCEPT ![r] =
            [pc |-> "inserted", op |-> "seed_sample_property",
             body |-> SeedBody,
             new_id |-> StrOfObjectId([t |-> "ObjectId", v |-> nextOid])]]
    /\ UNCHANGED <<db, database_url, storeUp, inquiry, created, resp>>

\* ------------------------------------------------------ POST /api/seed
seed_sample_property(r, cap) ==
    insert_property(r, "seed_sample_property", SeedBody, cap)

\* doc = db["property"].find_one({"_id": ObjectId(new_id)});
\* return to_public_id(doc): the second half of both creation handlers
\* the re-read taking the newest document of the collection in place of
\* the one with new_id
reread_response_newest(req) ==
    IF ~DbAvailable THEN ServerError(req.op, req.body)
    ELSE [op |-> req.op, status |-> 200, request |-> req.body,
          new_id |-> req.new_id,
          body |-> to_public_id(property[Len(property)])]

reread_response(req) ==
    IF ~DbAvailable THEN ServerError(req.op, req.body)
    ELSE [op |-> req.op, status |-> 200, request |-> req.body,
          new_id |-> req.new_id,
          body |-> to_public_id(find_one(property, ObjectId(req.new_id)))]

reread_property(r) ==
    /\ inflight[r].pc = "inserted"
    /\ resp' = reread_response(inflight[r])
    /\ created' = IF resp'.status = 200 THEN Append(created, resp'.body)
                  ELSE created
    /\ inflight' = [inflight EXCEPT ![r] = Idle]
    /\ UNCHANGED <<db, database_url, storeUp, property, inquiry, nextOid>>

\* ------------------------------------------------- POST /api/inquiries
create_inquiry(cap) ==
    \E body \in InquiryBodies :
        /\ IF ~InquiryValid(body)
           THEN /\ resp' = [op |-> "create_inquiry", status |-> 422,
                            request |-> body]
                /\ UNCHANGED <<inquiry, nextOid>>
           ELSE LET payload == InquiryIn(body) IN
                IF Truthy(payload.property_id)
                   /\ ~ObjectIdValid(payload.property_id)
                THEN /\ resp' = [op |-> "create_inquiry", status |-> 400,
                                 request |-> body]
                     /\ UNCHANGED <<inquiry, nextOid>>
                ELSE IF ~DbAvailable
                THEN /\ resp' = ServerError("create_inquiry", body)
                     /\ UNCHANGED <<inquiry, nextOid>>
                ELSE /\ nextOid <= cap
                     /\ inquiry' = create_document(inquiry, payload, nextOid)
                     /\ nextOid' = nextOid + 1
                     /\ resp' =
                          [op |-> "create_inquiry", status |-> 200,
                           request |-> body,
                           body |-> [id |-> StrOfObjectId(
                                              [t |-> "ObjectId",
                                               v |-> nextOid]),
                                     status |-> "received"]]
        /\ UNCHANGED <<db, database_url, storeUp, property, inflight,
                       created>>

\* -------------------------------------------------------- specification
Next ==
    \/ store_outage
    \/ store_recovery
    \/ read_root
    \/ test_database
    \/ list_properties(LimitQueries)
    \/ get_property
    \/ create_property_rejected
    \/ \E r \in Slots : create_property(r, MaxDocs)
    \/ \E r \in Slots : seed_sample_property(r, MaxDocs)
    \/ \E r \in Slots : reread_property(r)
    \/ create_inquiry(MaxDocs)

Spec == Init /\ [][Next]_vars

\* the listing endpoint over a store that grows to MaxListed listings
NextList ==
    \/ seed_sample_property(1, MaxListed)
    \/ reread_property(1)
    \/ list_properties(ListLimitQueries)

SpecList == Init /\ [][NextList]_vars

\* ================================================================ claims
Creations == {"create_property", "seed_sample_property"}
CreatedOk == resp.op \in Creations /\ resp.status = 200
HasId(rec) == ~DocFalsy(rec) /\ "id" \in DOMAIN rec
Ids(coll) == {coll[i]["_id"] : i \in 1..Len(coll)}
NoSharedId(coll) ==
    \A i, j \in 1..Len(coll) : i # j => coll[i]["_id"] # coll[j]["_id"]

\* C1: every successful creation (POST /api/properties with a valid body,
\* POST /api/seed) returns a record with a non-empty id string that differs
\* from every id returned by an earlier creation, and no two documents of a
\* collection share an identifier.
C1_CreationIdsFresh ==
    /\ \A i \in 1..Len(created) :
          /\ HasId(created[i])
          /\ created[i].id.t = "hex24"
          /\ Truthy(created[i].id)
          /\ \A j \in 1..Len(created) :
                j < i => created[j].id # created[i].id
    /\ CreatedOk => HasId(resp.body) /\ resp.body.id.t = "hex24"
    /\ NoSharedId(property)
    /\ NoSharedId(inquiry)

\* two creations have answered, the later one the seed
C1_Witness ==
    /\ Len(created) >= 2
    /\ CreatedOk
    /\ resp.op = "seed_sample_property"
    /\ resp.body = created[Len(created)]

\* the stored document a returned record stands for
StoredAs(rec, doc) ==
    /\ "_id" \in DOMAIN doc
    /\ DOMAIN rec = (DOMAIN doc \ {"_id"}) \cup {"id"}
    /\ rec.id = StrOfObjectId(doc["_id"])
    /\ \A f \in DOMAIN doc \ {"_id"} :
          doc[f].t \notin {"datetime", "date"} => rec[f] = doc[f]
PublicShaped(rec) ==
    /\ ~DocFalsy(rec)
    /\ "_id" \notin DOMAIN rec
    /\ "id" \in DOMAIN rec
    /\ rec.id.t = "hex24"
    /\ \E i \in 1..Len(property) : StoredAs(rec, property[i])

\* C8: every document returned by list, fetch, create or seed has no raw
\* "_id" key, has the identifier as the string "id", and has every other
\* field that is no date equal to the stored document's.
C8_ResponsesPublicShaped ==
    /\ (resp.op \in Creations \cup {"get_property"} /\ resp.status = 200)
          => PublicShaped(resp.body)
    /\ (resp.op = "list_properties" /\ resp.status = 200)
          => \A i \in 1..Len(resp.body) : PublicShaped(resp.body[i])
    /\ \A i \in 1..Len(created) : PublicShaped(created[i])

\* a listing of two documents has been returned
C8_Witness ==
    /\ resp.op = "list_properties"
    /\ resp.status = 200
    /\ Len(resp.body) = 2
    /\ resp.body[1].id # resp.body[2].id

\* the fields of a request body as they are after validation, except the
\* dates
OwnFields(rec, body) ==
    \A f \in DOMAIN body \ PropertyDateFields : rec[f] = body[f]

\* C10: under every interleaving of creation requests, a creation returns
\* the document its own insert stored: the id is the identifier assigned to
\* its insert and the fields are those of its own body; while it waits, the
\* document with its identifier is its own.
C10_CreationReturnsOwnDocument ==
    /\ CreatedOk =>
          /\ HasId(resp.body)
          /\ resp.body.id = resp.new_id
          /\ OwnFields(resp.body, resp.request)
    /\ \A r \in Slots :
          inflight[r].pc = "inserted" =>
             LET doc == find_one(property, ObjectId(inflight[r].new_id))
             IN /\ ~DocFalsy(doc)
                /\ OwnFields(doc, inflight[r].body)
                /\ \A q \in Slots :
                      (q # r /\ inflight[q].pc = "inserted")
                         => inflight[q].new_id # inflight[r].new_id

\* the first of two overlapping creations answers after the second one's
\* insert, while the second still waits
C10_Witness ==
    /\ CreatedOk
    /\ resp.new_id = HexStr(1)
    /\ Len(property) >= 2
    /\ \E r \in Slots :
          /\ inflight[r].pc = "inserted"
          /\ inflight[r].new_id = HexStr(2)
          /\ inflight[r].body # resp.request

\* a body the claim calls invalid: a required field is not sent, or price
\* or sqft is negative
OmitsRequired(body) == \E f \in PropertyRequired : f \notin DOMAIN body
NegativePriceOrSqft(body) ==
    \/ "price" \in DOMAIN body /\ body.price.v < 0
    \/ "sqft" \in DOMAIN body /\ body.sqft.v < 0
CreateRejected == resp.op = "create_property" /\ resp.status = 422

\* C2: POST /api/properties with a body that omits a required field or has
\* a negative price or sqft answers with the validation error 422, is never
\* inserted, and the step that answers leaves both collections as they
\* were.
C2_InvalidBodyRejected ==
    /\ [](/\ (resp.op = "create_property"
                /\ (OmitsRequired(resp.request)
                      \/ NegativePriceOrSqft(resp.request)))
             => resp.status = 422
          /\ \A r \in Slots :
                inflight[r].pc = "inserted" =>
                   /\ ~OmitsRequired(inflight[r].body)
                   /\ ~NegativePriceOrSqft(inflight[r].body))
    /\ [][(CreateRejected' /\ (resp.op # resp'.op \/ resp' # resp))
             => UNCHANGED <<property, inquiry, nextOid, inflight>>]_vars

\* a body with a negative price has been rejected while the collection
\* holds a document
C2_Witness ==
    /\ CreateRejected
    /\ ~OmitsRequired(resp.request)
    /\ resp.request.price.v < 0
    /\ Len(property) > 0

\* C3: GET /api/properties/{property_id} answers 200 or 404, never a server
\* error; it answers 404 when the identifier is malformed or belongs to no
\* stored property, and a 200 carries the stored property with exactly that
\* identifier.
C3_FetchNotFound ==
    resp.op = "get_property" =>
       /\ resp.status \in {200, 404}
       /\ ~ObjectIdValid(resp.request) => resp.status = 404
       /\ (ObjectIdValid(resp.request)
             /\ ObjectId(resp.request) \notin Ids(property))
            => resp.status = 404
       /\ resp.status = 200 =>
             \E i \in 1..Len(property) :
                /\ StrOfObjectId(property[i]["_id"]) = resp.request
                /\ StoredAs(resp.body, property[i])

\* a malformed identifier has been answered 404 while the store holds
\* properties and does not answer
C3_Witness ==
    /\ resp.op = "get_property"
    /\ resp.status = 404
    /\ resp.request = StrV("not-an-id")
    /\ Len(property) > 0
    /\ ~storeUp

\* C4 (as claimed): a submitted property_id that is no valid identifier is
\* never accepted: the answer is not "received" and no inquiry document
\* carries such a property_id.
C4_InvalidPropertyIdRejected ==
    /\ (resp.op = "create_inquiry"
          /\ "property_id" \in DOMAIN resp.request
          /\ ~ObjectIdValid(resp.request.property_id))
         => resp.status # 200
    /\ \A i \in 1..Len(inquiry) :
          \/ inquiry[i].property_id = None
          \/ ObjectIdValid(inquiry[i].property_id)

\* the value a field has after default-filling, as the schema table gives
\* it
SubmittedOrDefault(body, f) ==
    IF f \in DOMAIN body THEN body[f]
    ELSE IF f = "status" THEN StrV("For Sale")
    ELSE IF f \in {"photos", "features", "schools", "open_house"}
    THEN ListV(<<>>)
    ELSE None
\* a fetch returns what the creation of the same id returned
FetchEqualsCreated ==
    (resp.op = "get_property" /\ resp.status = 200) =>
       \A i \in 1..Len(created) :
          (HasId(created[i]) /\ created[i].id = resp.request)
             => resp.body = created[i]
SeedAsDeclared ==
    (CreatedOk /\ resp.op = "seed_sample_property") =>
       /\ resp.body.title = StrV("Modern Craftsman with Valley Views")
       /\ resp.body.price = IntV(1495000)
       /\ Len(resp.body.photos.v) = 4

Listed == resp.op = "list_properties" /\ resp.status = 200
ListedAreStored ==
    Listed => \A i \in 1..Len(resp.body) :
                 \E j \in 1..Len(property) :
                    StoredAs(resp.body[i], property[j])

Diagnosed == resp.op = "test_database"
\* C7: GET /test always answers 200. Without a handle it reports the
\* database not available, not connected, no collections; with a handle
\* and a listing that succeeds, connected and working with names of
\* collections; with a handle and a failing access, an error indicator
\* with the first 60 characters of the failure description and no more.
C7_DiagnosticNeverFails ==
    Diagnosed =>
       /\ resp.status = 200
       /\ db = "None" =>
             /\ resp.body.database.label = "Not Available"
             /\ resp.body.connection_status = "Not Connected"
             /\ resp.body.collections = <<>>
       /\ (db # "None" /\ resp.fault = "none") =>
             /\ resp.body.database.label = "Connected & Working"
             /\ resp.body.connection_status = "Connected"
             /\ \A i \in 1..Len(resp.body.collections) :
                   \/ resp.body.collections[i] = "property"
                        /\ Len(property) > 0
                   \/ resp.body.collections[i] = "inquiry"
                        /\ Len(inquiry) > 0
       /\ (db # "None" /\ resp.fault # "none") =>
             /\ resp.body.database.label \in {"Connected but Error", "Error"}
             /\ resp.body.collections = <<>>
             /\ Len(resp.body.database.detail) <= 60
             /\ Len(resp.body.database.detail) <= Len(resp.error)
             /\ (Len(resp.error) >= 60
                   => Len(resp.body.database.detail) = 60)
             /\ \A i \in 1..Len(resp.body.database.detail) :
                   resp.body.database.detail[i] = resp.error[i]

\* the collection listing has failed with a description longer than 60
C7_Witness ==
    /\ Diagnosed
    /\ resp.fault = "list"
    /\ Len(resp.error) > 60
    /\ Len(property) > 0

IsPrefix(a, b) == Len(a) <= Len(b) /\ SubSeq(b, 1, Len(a)) = a
Answered(ops) == resp'.op \in ops /\ (resp.op # resp'.op \/ resp' # resp)
\* C9: the store is append-only. Every step keeps every stored document in
\* place and unchanged and adds at most one; an answer of GET /, /test,
\* /api/properties or /api/properties/{id} comes with both collections
\* unchanged; the insert of a creation adds one property document with the
\* identifier the request goes on with and leaves the inquiries; the answer
\* of a creation changes neither collection; an accepted inquiry adds one
\* inquiry document and leaves the properties, and every other answer of
\* POST /api/inquiries changes neither.
C9_AppendOnly ==
    [][/\ IsPrefix(property, property')
       /\ IsPrefix(inquiry, inquiry')
       /\ Len(property') + Len(inquiry')
             <= Len(property) + Len(inquiry) + 1
       /\ Answered({"read_root", "test_database", "list_properties",
                    "get_property"})
             => UNCHANGED <<property, inquiry>>
       /\ \A r \in Slots :
             (inflight[r].pc = "idle" /\ inflight'[r].pc = "inserted") =>
                /\ Len(property') = Len(property) + 1
                /\ StrOfObjectId(property'[Len(property')]["_id"])
                      = inflight'[r].new_id
                /\ inquiry' = inquiry
       /\ Answered(Creations) => UNCHANGED <<property, inquiry>>
       /\ Answered({"create_inquiry"}) =>
             /\ property' = property
             /\ IF resp'.status = 200
                THEN /\ Len(inquiry') = Len(inquiry) + 1
                     /\ StrOfObjectId(inquiry'[Len(inquiry')]["_id"])
                           = resp'.body.id
                ELSE inquiry' = inquiry]_vars

\* both collections hold a document and a creation has answered
C9_Witness ==
    /\ Len(property) > 0
    /\ Len(inquiry) > 0
    /\ CreatedOk
    /\ resp.new_id = HexStr(2)

====
